---- MODULE Spec2Model ----
\* Model of udlerrors/main.cpp: the status domains win / nt / hr, the
\* must-be-checked wrapper error::unique_error<T> and the operations on it.
\* A behaviour is one run of a program that uses unique_error<T> for one
\* status domain T, with up to MaxWrappers wrapper objects alive at a time;
\* the raw status code its platform calls hand back is raw.
EXTENDS Integers, FiniteSets, Sequences, TLC

\* ------------------------------------------------------------------ bounds
\* number of wrapper objects (storage slots) a run may have alive at once
MaxWrappers == 2
\* raw codes used as inputs: every severity (top two bits) with low part 0..MaxLow
MaxLow == 0
\* raw results of the wrapped calls (handles and the like) and handler
\* sentinels are 0..MaxRaw, 0 being the null value
MaxRaw == 2

\* ------------------------------------------------------- program constants
NOERROR == 0
STATUS_SUCCESS == 0
S_OK == 0

Slots == 1..MaxWrappers
Domains == {"win", "nt", "hr"}
\* 32-bit codes, kept as the signed (two's complement) value of their bit
\* pattern, -2^31 .. 2^31-1 (NTSTATUS and HRESULT are LONG; for DWORD the same
\* bit pattern, where only equality and comparison with 0 are used)
Codes == {s * (2^30) + l : s \in -2..1, l \in 0..MaxLow}

VARIABLES
    T,          \* the status domain the wrappers of this run are instantiated for
    raw,        \* the raw status code the platform calls of this run return
    live,       \* live[w]: the wrapper object in slot w exists
    error,      \* error[w]: unique_error::error (the code of the held T value)
    issafe,     \* issafe[w]: unique_error::issafe
    res,        \* ghost: the logical result whose value w holds (0: the neutral value)
    hist,       \* ghost: what happened to w since its construction
    terminated, \* std::terminate() has been reached
    last,       \* the operation executed last and what it returned
    disp        \* the handler a raw result was piped through last, and the outcome

vars == <<T, raw, live, error, issafe, res, hist, terminated, last, disp>>

\* --------------------------------------------------------- status domains
\* win::operator bool
win_bool(v) == v = 0

\* NT_ERROR(Status): ((ULONG)(Status) >> 30) == 3, both severity bits set
nt_error(v) == ((v \div (2^30)) % 4) = 3

\* nt::operator bool
nt_bool(v) == nt_error(v)

\* SUCCEEDED(hr): the code is non-negative as a signed 32-bit integer
hr_succeeded(v) == v >= 0

\* hr::operator bool
hr_bool(v) == hr_succeeded(v)

\* T{}: the default-constructed status value of each domain
Neutral(d) ==
    CASE d = "win" -> NOERROR
      [] d = "nt"  -> STATUS_SUCCESS
      [] d = "hr"  -> S_OK

\* error::ok(const T&): !!t, the explicit bool conversion of the domain
ok(d, v) ==
    CASE d = "win" -> win_bool(v)
      [] d = "nt"  -> nt_bool(v)
      [] d = "hr"  -> hr_bool(v)

\* ------------------------------------------------------------------ ghosts
\* a result id that no live wrapper other than w refers to
FreshRes(w) ==
    CHOOSE r \in 1..MaxWrappers :
        \A x \in Slots \ {w} : live[x] => res[x] # r

\* the record of an executed operation: its name, the wrapper it was applied
\* to, the source wrapper of a copy (or the right-hand wrapper of a
\* comparison), the bool or the code it returned, and the code of the
\* status value it was given
Op(name, w, o) ==
    [op |-> name, w |-> w, o |-> o, retb |-> FALSE, retv |-> 0, arg |-> 0]
OpB(name, w, b) ==
    [op |-> name, w |-> w, o |-> 0, retb |-> b, retv |-> 0, arg |-> 0]
OpV(name, w, v) ==
    [op |-> name, w |-> w, o |-> 0, retb |-> FALSE, retv |-> v, arg |-> 0]
\* a comparison: left wrapper (0: a status value), right wrapper (0: a
\* status value), the status value compared with, and the answer
OpC(name, w, o, v, b) ==
    [op |-> name, w |-> w, o |-> o, retb |-> b, retv |-> 0, arg |-> v]

\* the outcome of piping a raw result through a handler: the handler, the
\* raw result r and the sentinel (or the raw code for throw_hr / throw_nt),
\* whether an exception was thrown, its isok and the code it carries, the
\* value returned, the status half of a returned pair, and the number of
\* calls of GetLastError()
NoDispatch ==
    [handler |-> "none", r |-> 0, invalid |-> 0, code |-> 0, threw |-> FALSE,
     exc_ok |-> FALSE, exc_code |-> 0, ret |-> 0, status |-> 0, gle |-> 0]

\* ------------------------------------------------------------------- Init
Init ==
    /\ T \in Domains
    /\ raw \in Codes
    /\ live = [w \in Slots |-> FALSE]
    /\ error = [w \in Slots |-> 0]
    /\ issafe = [w \in Slots |-> TRUE]
    /\ res = [w \in Slots |-> 0]
    /\ hist = [w \in Slots |-> "none"]
    /\ terminated = FALSE
    /\ last = Op("start", 0, 0)
    /\ disp = NoDispatch

\* ----------------------------------------------------------- constructors
\* unique_error() : issafe(true) {}      (error is T{})
ctor_default(w) ==
    /\ ~terminated /\ ~live[w]
    /\ live' = [live EXCEPT ![w] = TRUE]
    /\ error' = [error EXCEPT ![w] = Neutral(T)]
    /\ issafe' = [issafe EXCEPT ![w] = TRUE]
    /\ res' = [res EXCEPT ![w] = 0]
    /\ hist' = [hist EXCEPT ![w] = "other"]
    /\ last' = Op("ctor_default", w, 0)
    /\ UNCHANGED <<T, raw, disp, terminated>>

\* mutant of ctor_value: the obligation is opened by failing values only
ctor_value_by_outcome(w, v) ==
    /\ ~terminated /\ ~live[w]
    /\ live' = [live EXCEPT ![w] = TRUE]
    /\ error' = [error EXCEPT ![w] = v]
    /\ issafe' = [issafe EXCEPT ![w] = ok(T, v)]
    /\ res' = [res EXCEPT ![w] = FreshRes(w)]
    /\ hist' = [hist EXCEPT ![w] = "fresh"]
    /\ last' = Op("ctor_value", w, 0)
    /\ UNCHANGED <<T, raw, disp, terminated>>

\* unique_error(V v) : error(v), issafe(false) {}
ctor_value(w, v) ==
    /\ ~terminated /\ ~live[w]
    /\ live' = [live EXCEPT ![w] = TRUE]
    /\ error' = [error EXCEPT ![w] = v]
    /\ issafe' = [issafe EXCEPT ![w] = FALSE]
    /\ res' = [res EXCEPT ![w] = FreshRes(w)]
    /\ hist' = [hist EXCEPT ![w] = "fresh"]
    /\ last' = Op("ctor_value", w, 0)
    /\ UNCHANGED <<T, raw, disp, terminated>>

\* ------------------------------------------------------------- destructor
\* mutant of safe_or_terminate: the check is compiled out
safe_or_terminate_never(w) == terminated

\* void safe_or_terminate() const { if (!issafe) { std::terminate(); } }
\* the value of `terminated` after the call on wrapper w
safe_or_terminate(w) == terminated \/ ~issafe[w]

\* ~unique_error() { safe_or_terminate(); }
\* On termination the process ends where it stands; otherwise the object is gone.
dtor(w) ==
    /\ ~terminated /\ live[w]
    /\ terminated' = safe_or_terminate(w)
    /\ IF terminated'
         THEN UNCHANGED <<live, error, issafe, res, hist>>
         ELSE /\ live' = [live EXCEPT ![w] = FALSE]
              /\ error' = [error EXCEPT ![w] = 0]
              /\ issafe' = [issafe EXCEPT ![w] = TRUE]
              /\ res' = [res EXCEPT ![w] = 0]
              /\ hist' = [hist EXCEPT ![w] = "none"]
    /\ last' = Op("dtor", w, 0)
    /\ UNCHANGED <<T, raw, disp>>

\* ------------------------------------------------------------------- copy
\* mutant of copy_issafe: the source keeps its flag (a plain member-wise copy)
copy_issafe_source_kept(w, o) == [issafe EXCEPT ![w] = issafe[o]]

\* issafe(o.issafe) { o.issafe = true; }   and   issafe = o.issafe; o.issafe = true;
\* the two writes in program order (for w = o the second one wins)
copy_issafe(w, o) == [[issafe EXCEPT ![w] = issafe[o]] EXCEPT ![o] = TRUE]

\* unique_error(const unique_error& o) : error(o.error), issafe(o.issafe) { o.issafe = true; }
ctor_copy(w, o) ==
    /\ ~terminated /\ ~live[w] /\ live[o]
    /\ live' = [live EXCEPT ![w] = TRUE]
    /\ error' = [error EXCEPT ![w] = error[o]]
    /\ issafe' = copy_issafe(w, o)
    /\ res' = [res EXCEPT ![w] = res[o]]
    /\ hist' = [hist EXCEPT ![w] = "other", ![o] = "other"]
    /\ last' = Op("ctor_copy", w, o)
    /\ UNCHANGED <<T, raw, disp, terminated>>

\* mutant of assign: an unchecked destination is fatal, as for reset
assign_checked(w, o) ==
    /\ ~terminated /\ live[w] /\ live[o]
    /\ terminated' = (terminated \/ ~issafe[w])
    /\ IF terminated'
         THEN UNCHANGED <<error, issafe, res, hist>>
         ELSE /\ error' = [error EXCEPT ![w] = error[o]]
              /\ issafe' = [[issafe EXCEPT ![w] = issafe[o]] EXCEPT ![o] = TRUE]
              /\ res' = [res EXCEPT ![w] = res[o]]
              /\ hist' = [hist EXCEPT ![w] = "other", ![o] = "other"]
    /\ last' = Op("assign", w, o)
    /\ UNCHANGED <<T, raw, disp, live>>

\* unique_error& operator=(const unique_error& o)
\*   { error = o.error; issafe = o.issafe; o.issafe = true; return *this; }
assign(w, o) ==
    /\ ~terminated /\ live[w] /\ live[o]
    /\ error' = [error EXCEPT ![w] = error[o]]
    /\ issafe' = copy_issafe(w, o)
    /\ res' = [res EXCEPT ![w] = res[o]]
    /\ hist' = [hist EXCEPT ![w] = "other", ![o] = "other"]
    /\ last' = Op("assign", w, o)
    /\ UNCHANGED <<T, raw, disp, live, terminated>>

\* ------------------------------------------------------------ inspection
\* bool ok() const { issafe = true;  return error::ok(error); }
unique_error_ok(w) ==
    /\ ~terminated /\ live[w]
    /\ issafe' = [issafe EXCEPT ![w] = TRUE]
    /\ hist' = [hist EXCEPT ![w] = IF hist[w] = "fresh" THEN "ok1" ELSE "other"]
    /\ last' = OpB("ok", w, ok(T, error[w]))
    /\ UNCHANGED <<T, raw, disp, live, error, res, terminated>>

\* w.ok()
member_ok(w) == unique_error_ok(w)

\* explicit operator bool() const { return ok(); }
operator_bool(w) == unique_error_ok(w)

\* bool ok(const unique_error<T>& t) { return t.ok(); }
free_ok(w) == unique_error_ok(w)

\* T& get() { return error; }     const T& get() const { return error; }
get(w) ==
    /\ ~terminated /\ live[w]
    /\ last' = OpV("get", w, error[w])
    /\ UNCHANGED <<T, raw, disp, live, error, issafe, res, hist, terminated>>

\* bool is_safe() const { return issafe; }
is_safe(w) ==
    /\ ~terminated /\ live[w]
    /\ last' = OpB("is_safe", w, issafe[w])
    /\ UNCHANGED <<T, raw, disp, live, error, issafe, res, hist, terminated>>

\* --------------------------------------------------------- reset, release
\* mutant of reset: reset() without the safe_or_terminate() call
reset_discharging(w) ==
    /\ ~terminated /\ live[w]
    /\ error' = [error EXCEPT ![w] = Neutral(T)]
    /\ issafe' = [issafe EXCEPT ![w] = TRUE]
    /\ res' = [res EXCEPT ![w] = 0]
    /\ hist' = [hist EXCEPT ![w] = "other"]
    /\ last' = Op("reset", w, 0)
    /\ UNCHANGED <<T, raw, disp, live, terminated>>

\* unique_error& reset() { safe_or_terminate(); error = T{}; issafe = true; return *this; }
reset(w) ==
    /\ ~terminated /\ live[w]
    /\ terminated' = safe_or_terminate(w)
    /\ IF terminated'
         THEN UNCHANGED <<error, issafe, res, hist>>
         ELSE /\ error' = [error EXCEPT ![w] = Neutral(T)]
              /\ issafe' = [issafe EXCEPT ![w] = TRUE]
              /\ res' = [res EXCEPT ![w] = 0]
              /\ hist' = [hist EXCEPT ![w] = "other"]
    /\ last' = Op("reset", w, 0)
    /\ UNCHANGED <<T, raw, disp, live>>

\* mutant of reset_v: the new value's obligation is opened only when the
\* value is a failure
reset_v_by_outcome(w, v) ==
    /\ ~terminated /\ live[w]
    /\ terminated' = safe_or_terminate(w)
    /\ IF terminated'
         THEN UNCHANGED <<error, issafe, res, hist>>
         ELSE /\ error' = [error EXCEPT ![w] = v]
              /\ issafe' = [issafe EXCEPT ![w] = ok(T, v)]
              /\ res' = [res EXCEPT ![w] = FreshRes(w)]
              /\ hist' = [hist EXCEPT ![w] = "other"]
    /\ last' = Op("reset_v", w, 0)
    /\ UNCHANGED <<T, raw, disp, live>>

\* unique_error& reset(V v) { safe_or_terminate(); error = T{v}; issafe = false; return *this; }
reset_v(w, v) ==
    /\ ~terminated /\ live[w]
    /\ terminated' = safe_or_terminate(w)
    /\ IF terminated'
         THEN UNCHANGED <<error, issafe, res, hist>>
         ELSE /\ error' = [error EXCEPT ![w] = v]
              /\ issafe' = [issafe EXCEPT ![w] = FALSE]
              /\ res' = [res EXCEPT ![w] = FreshRes(w)]
              /\ hist' = [hist EXCEPT ![w] = "other"]
    /\ last' = Op("reset_v", w, 0)
    /\ UNCHANGED <<T, raw, disp, live>>

\* mutant of release: the flag is left as it was
release_flag_kept(w) ==
    /\ ~terminated /\ live[w]
    /\ error' = [error EXCEPT ![w] = Neutral(T)]
    /\ res' = [res EXCEPT ![w] = 0]
    /\ hist' = [hist EXCEPT ![w] = "other"]
    /\ last' = OpV("release", w, error[w])
    /\ UNCHANGED <<T, raw, disp, live, issafe, terminated>>

\* T release() { T result = error; error = T{}; issafe = true; return result; }
release(w) ==
    /\ ~terminated /\ live[w]
    /\ error' = [error EXCEPT ![w] = Neutral(T)]
    /\ issafe' = [issafe EXCEPT ![w] = TRUE]
    /\ res' = [res EXCEPT ![w] = 0]
    /\ hist' = [hist EXCEPT ![w] = "other"]
    /\ last' = OpV("release", w, error[w])
    /\ UNCHANGED <<T, raw, disp, live, terminated>>

\* ------------------------------------------------- plain status values
\* ok(T{ v }): the free predicate on a status value built from raw code v
value_ok(v) ==
    /\ ~terminated
    /\ last' = [op |-> "value_ok", w |-> 0, o |-> 0, retb |-> ok(T, v),
                retv |-> v, arg |-> v]
    /\ UNCHANGED <<T, raw, disp, live, error, issafe, res, hist, terminated>>

\* ok(T{}): the free predicate on the default-constructed status value
value_ok_default ==
    /\ ~terminated
    /\ last' = [op |-> "value_ok_default", w |-> 0, o |-> 0,
                retb |-> ok(T, Neutral(T)), retv |-> Neutral(T),
                arg |-> Neutral(T)]
    /\ UNCHANGED <<T, raw, disp, live, error, issafe, res, hist, terminated>>

Next ==
    \/ \E w \in Slots : ctor_default(w)
    \/ \E w \in Slots : ctor_value(w, raw)
    \/ \E w \in Slots, o \in Slots : ctor_copy(w, o)
    \/ \E w \in Slots, o \in Slots : assign(w, o)
    \/ \E w \in Slots : member_ok(w)
    \/ \E w \in Slots : operator_bool(w)
    \/ \E w \in Slots : free_ok(w)
    \/ \E w \in Slots : get(w)
    \/ \E w \in Slots : is_safe(w)
    \/ \E w \in Slots : reset(w)
    \/ \E w \in Slots : reset_v(w, raw)
    \/ \E w \in Slots : release(w)
    \/ \E w \in Slots : dtor(w)
    \/ value_ok(raw)
    \/ value_ok_default

Spec == Init /\ [][Next]_vars

\* ------------------------------------------------------------ comparisons
\* mutant of value_eq: two values are taken for equal when they agree on
\* the success predicate
value_eq_by_outcome(d, a, b) == ok(d, a) = ok(d, b)

\* bool operator==(const T& lhs, const T& rhs) { return lhs.value == rhs.value; }
value_eq(d, a, b) == a = b

\* bool operator!=(const T& lhs, const T& rhs) { return lhs.value != rhs.value; }
value_ne(d, a, b) == a # b

\* T{ raw } == T{ v }
eq_tt(v) ==
    /\ ~terminated
    /\ last' = OpC("eq_tt", 0, 0, v, value_eq(T, raw, v))
    /\ UNCHANGED <<T, raw, disp, live, error, issafe, res, hist, terminated>>

\* T{ raw } != T{ v }
ne_tt(v) ==
    /\ ~terminated
    /\ last' = OpC("ne_tt", 0, 0, v, value_ne(T, raw, v))
    /\ UNCHANGED <<T, raw, disp, live, error, issafe, res, hist, terminated>>

\* mutant of eq_wt: the comparison goes through ok() and so marks the
\* wrapper safe
eq_wt_checking(w, v) ==
    /\ ~terminated /\ live[w]
    /\ last' = OpC("eq_wt", w, 0, v, error[w] = v)
    /\ issafe' = [issafe EXCEPT ![w] = TRUE]
    /\ UNCHANGED <<T, raw, disp, live, error, res, hist, terminated>>

\* mutant of eq_ww: the wrappers are compared by their flags
eq_ww_by_flag(w, o) ==
    /\ ~terminated /\ live[w] /\ live[o]
    /\ last' = OpC("eq_ww", w, o, 0, issafe[w] = issafe[o])
    /\ UNCHANGED <<T, raw, disp, live, error, issafe, res, hist, terminated>>

\* operator==(const unique_error<T>& lhs, const T& rhs)
\*   { return lhs.get().value == rhs.value; }
eq_wt(w, v) ==
    /\ ~terminated /\ live[w]
    /\ last' = OpC("eq_wt", w, 0, v, error[w] = v)
    /\ UNCHANGED <<T, raw, disp, live, error, issafe, res, hist, terminated>>

\* operator!=(const unique_error<T>& lhs, const T& rhs)
\*   { return lhs.get().value != rhs.value; }
ne_wt(w, v) ==
    /\ ~terminated /\ live[w]
    /\ last' = OpC("ne_wt", w, 0, v, error[w] # v)
    /\ UNCHANGED <<T, raw, disp, live, error, issafe, res, hist, terminated>>

\* operator==(const T& lhs, const unique_error<T>& rhs)
\*   { return lhs.value == rhs.get().value; }
eq_tw(v, o) ==
    /\ ~terminated /\ live[o]
    /\ last' = OpC("eq_tw", 0, o, v, v = error[o])
    /\ UNCHANGED <<T, raw, disp, live, error, issafe, res, hist, terminated>>

\* operator!=(const T& lhs, const unique_error<T>& rhs)
\*   { return lhs.value != rhs.get().value; }
ne_tw(v, o) ==
    /\ ~terminated /\ live[o]
    /\ last' = OpC("ne_tw", 0, o, v, v # error[o])
    /\ UNCHANGED <<T, raw, disp, live, error, issafe, res, hist, terminated>>

\* operator==(const unique_error<T>& lhs, const unique_error<T>& rhs)
\*   { return lhs.get().value == rhs.get().value; }
eq_ww(w, o) ==
    /\ ~terminated /\ live[w] /\ live[o]
    /\ last' = OpC("eq_ww", w, o, 0, error[w] = error[o])
    /\ UNCHANGED <<T, raw, disp, live, error, issafe, res, hist, terminated>>

\* operator!=(const unique_error<T>& lhs, const unique_error<T>& rhs)
\*   { return lhs.get().value != rhs.get().value; }
ne_ww(w, o) ==
    /\ ~terminated /\ live[w] /\ live[o]
    /\ last' = OpC("ne_ww", w, o, 0, error[w] # error[o])
    /\ UNCHANGED <<T, raw, disp, live, error, issafe, res, hist, terminated>>

\* ------------------------------------------------- acquisition protocol
\* the raw results of platform calls and the sentinels they are compared with
RawResults == 0..MaxRaw

\* GetLastError(): the calling thread's last-error code, which is whatever
\* the platform call left there
GetLastError == raw

\* mutant of tie_assign: operator= copies member-wise and leaves the
\* temporary as it was
tie_assign_plain_copy(w, invalid, r) ==
    LET status == IF r = invalid THEN GetLastError ELSE NOERROR
        tmp_constructed == FALSE
        err_assigned == tmp_constructed
        tmp_assigned == tmp_constructed
    IN  /\ T = "win"
        /\ ~terminated /\ live[w]
        /\ terminated' = (terminated \/ ~tmp_assigned)
        /\ error' = [error EXCEPT ![w] = status]
        /\ issafe' = [issafe EXCEPT ![w] = err_assigned]
        /\ res' = [res EXCEPT ![w] = FreshRes(w)]
        /\ hist' = [hist EXCEPT ![w] = "other"]
        /\ last' = OpC("tie_assign", w, 0, status, r = invalid)
        /\ UNCHANGED <<T, raw, disp, live>>

\* std::tie(err, event) = r || last_error_if(invalid);
\* The pair's status half is converted to a temporary unique_error<win> by
\* unique_error(V v), err.operator=(temporary) runs, and the temporary is
\* destroyed at the end of the statement.
tie_assign(w, invalid, r) ==
    LET \* win{ (r == invalid) ? GetLastError() : NOERROR }
        status == IF r = invalid THEN GetLastError ELSE NOERROR
        \* unique_error(V v) : error(v), issafe(false)
        tmp_constructed == FALSE
        \* issafe = o.issafe; o.issafe = true;
        err_assigned == tmp_constructed
        tmp_assigned == TRUE
    IN  /\ T = "win"
        /\ ~terminated /\ live[w]
        \* ~unique_error() of the temporary: safe_or_terminate()
        /\ terminated' = (terminated \/ ~tmp_assigned)
        /\ error' = [error EXCEPT ![w] = status]
        /\ issafe' = [issafe EXCEPT ![w] = err_assigned]
        /\ res' = [res EXCEPT ![w] = FreshRes(w)]
        /\ hist' = [hist EXCEPT ![w] = "other"]
        /\ last' = OpC("tie_assign", w, 0, status, r = invalid)
        /\ UNCHANGED <<T, raw, disp, live>>

\* the status value a wrapper is compared with: the neutral value, as in
\* `err == win{ NOERROR }`, or the value of the run's raw code
Operand(n) == IF n THEN Neutral(T) ELSE raw

\* a comparison names two wrappers at most, its left and its right operand
Operands == {w \in Slots : w <= 2}

\* the operand wrappers are constructed, inspected, released and compared
NextCmp ==
    \/ \E w \in Operands : ctor_default(w)
    \/ \E w \in Operands : ctor_value(w, raw)
    \/ \E w \in Operands : operator_bool(w)
    \/ \E w \in Operands : get(w)
    \/ \E w \in Operands : release(w)
    \/ \E v \in Codes : eq_tt(v)
    \/ \E v \in Codes : ne_tt(v)
    \/ \E w \in Operands, n \in BOOLEAN : eq_wt(w, Operand(n))
    \/ \E w \in Operands, n \in BOOLEAN : ne_wt(w, Operand(n))
    \/ \E o \in Operands, n \in BOOLEAN : eq_tw(Operand(n), o)
    \/ \E o \in Operands, n \in BOOLEAN : ne_tw(Operand(n), o)
    \/ \E w \in Operands, o \in Operands : eq_ww(w, o)
    \/ \E w \in Operands, o \in Operands : ne_ww(w, o)

SpecCmp == Init /\ [][NextCmp]_vars

\* the acquisition blocks of wmain: a wrapper is declared, receives the
\* status of a platform call by tie-assignment or reset, is checked or
\* released, and goes out of scope
NextAcquire ==
    \/ \E w \in Slots : ctor_default(w)
    \/ \E w \in Slots, invalid \in RawResults, r \in RawResults :
            tie_assign(w, invalid, r)
    \/ \E w \in Slots : reset(w)
    \/ \E w \in Slots : reset_v(w, raw)
    \/ \E w \in Slots : operator_bool(w)
    \/ \E w \in Slots : is_safe(w)
    \/ \E w \in Slots : release(w)
    \/ \E w \in Slots : dtor(w)

SpecAcquire == Init /\ [][NextAcquire]_vars

\* ------------------------------------------------------ result dispatch
\* operator||(result, handler) is handler(result); each action below is one
\* `result || handler` expression.
\* error_exception(const T& e) : isok(error::ok(e))
error_exception(d, v) == ok(d, v)

\* mutant of last_error_if: the diagnostic is fetched before the comparison
last_error_if_eager(invalid, r) ==
    /\ ~terminated
    /\ disp' = [handler |-> "last_error_if", r |-> r, invalid |-> invalid,
                code |-> 0, threw |-> FALSE, exc_ok |-> FALSE, exc_code |-> 0,
                ret |-> r,
                status |-> IF r = invalid THEN GetLastError ELSE NOERROR,
                gle |-> 1]
    /\ UNCHANGED <<T, raw, live, error, issafe, res, hist, terminated, last>>

\* std::pair<win, T> last_error_if_t::operator()(T r) const
\*   { return std::make_pair(win{ (r == invalid) ? GetLastError() : NOERROR }, r); }
last_error_if(invalid, r) ==
    /\ ~terminated
    /\ disp' = [handler |-> "last_error_if", r |-> r, invalid |-> invalid,
                code |-> 0, threw |-> FALSE, exc_ok |-> FALSE, exc_code |-> 0,
                ret |-> r,
                status |-> IF r = invalid THEN GetLastError ELSE NOERROR,
                gle |-> IF r = invalid THEN 1 ELSE 0]
    /\ UNCHANGED <<T, raw, live, error, issafe, res, hist, terminated, last>>

\* T throw_last_error_if_t::operator()(T r) const
\*   { if (r != invalid) return r; throw win_exception{ win{ GetLastError() } }; }
throw_last_error_if(invalid, r) ==
    /\ ~terminated
    /\ disp' = IF r # invalid
                 THEN [handler |-> "throw_last_error_if", r |-> r,
                       invalid |-> invalid, code |-> 0, threw |-> FALSE,
                       exc_ok |-> FALSE, exc_code |-> 0, ret |-> r,
                       status |-> 0, gle |-> 0]
                 ELSE [handler |-> "throw_last_error_if", r |-> r,
                       invalid |-> invalid, code |-> 0, threw |-> TRUE,
                       exc_ok |-> error_exception("win", GetLastError),
                       exc_code |-> GetLastError, ret |-> 0,
                       status |-> 0, gle |-> 1]
    /\ UNCHANGED <<T, raw, live, error, issafe, res, hist, terminated, last>>

\* void throw_nt_t::operator()(NTSTATUS v) const
\*   { auto nte = nt{ v }; if (nte) return; throw nt_exception{ nte }; }
throw_nt(v) ==
    /\ ~terminated
    /\ disp' = IF nt_bool(v)
                 THEN [handler |-> "throw_nt", r |-> 0, invalid |-> 0,
                       code |-> v, threw |-> FALSE, exc_ok |-> FALSE,
                       exc_code |-> 0, ret |-> 0, status |-> 0, gle |-> 0]
                 ELSE [handler |-> "throw_nt", r |-> 0, invalid |-> 0,
                       code |-> v, threw |-> TRUE,
                       exc_ok |-> error_exception("nt", v),
                       exc_code |-> v, ret |-> 0, status |-> 0, gle |-> 0]
    /\ UNCHANGED <<T, raw, live, error, issafe, res, hist, terminated, last>>

\* void throw_hr_t::operator()(HRESULT v) const
\*   { auto hre = hr{ v }; if (hre) return; throw hr_exception{ hre }; }
throw_hr(v) ==
    /\ ~terminated
    /\ disp' = IF hr_bool(v)
                 THEN [handler |-> "throw_hr", r |-> 0, invalid |-> 0,
                       code |-> v, threw |-> FALSE, exc_ok |-> FALSE,
                       exc_code |-> 0, ret |-> 0, status |-> 0, gle |-> 0]
                 ELSE [handler |-> "throw_hr", r |-> 0, invalid |-> 0,
                       code |-> v, threw |-> TRUE,
                       exc_ok |-> error_exception("hr", v),
                       exc_code |-> v, ret |-> 0, status |-> 0, gle |-> 0]
    /\ UNCHANGED <<T, raw, live, error, issafe, res, hist, terminated, last>>

NextDispatch ==
    \/ \E invalid \in RawResults, r \in RawResults : last_error_if(invalid, r)
    \/ \E invalid \in RawResults, r \in RawResults : throw_last_error_if(invalid, r)
    \/ throw_nt(raw)
    \/ throw_hr(raw)

\* a program that only pipes raw results through handlers
SpecDispatch == Init /\ [][NextDispatch]_vars

\* ================================================================ claims
\* The success criterion each domain is specified to have: win succeeds on
\* the one reserved code, nt on every code that is not of error severity,
\* hr on every code whose severity bit is clear.
SuccessCriterion(d, v) ==
    CASE d = "win" -> v = NOERROR
      [] d = "nt"  -> ~nt_error(v)
      [] d = "hr"  -> hr_succeeded(v)

\* last.op names the operation a step has executed, last.w the wrapper it
\* was applied to and last.o the source of a copy; in the action formulas
\* below the unprimed variables are the state before that operation.

\* the wrappers that hold an outstanding obligation
Unsafe == {w \in Slots : live[w] /\ ~issafe[w]}

\* C1: a wrapper constructed from a raw code and destroyed with no wrapper
\* operation other than get()/is_safe() applied to it in between terminates
\* the process; one on which ok() was called exactly once in between does
\* not. Whatever the code and the domain.
C1_DestroyUncheckedTerminates ==
    [][last'.op = "dtor" =>
          /\ (hist[last'.w] = "fresh" => terminated')
          /\ (hist[last'.w] = "ok1" => ~terminated' /\ ~live'[last'.w])]_vars

\* C1 witness: a wrapper was constructed from a success code, never
\* inspected, and its destruction terminated the process
C1_Witness ==
    /\ terminated /\ last.op = "dtor"
    /\ hist[last.w] = "fresh" /\ error[last.w] = raw /\ SuccessCriterion(T, raw)

\* C2: copy construction and copy assignment between two wrappers transfer
\* the obligation: the destination gets the source's value and the source's
\* former is-safe flag, the source keeps its value and becomes safe; a later
\* destruction terminates exactly when the destroyed wrapper is unsafe.
C2_CopyTransfersObligation ==
    [][/\ (last'.op \in {"assign", "ctor_copy"} /\ last'.w # last'.o) =>
            /\ issafe'[last'.w] = issafe[last'.o] /\ issafe'[last'.o]
            /\ error'[last'.w] = error[last'.o]
            /\ error'[last'.o] = error[last'.o]
            /\ ~terminated'
       /\ last'.op = "dtor" => (terminated' <=> ~issafe[last'.w])]_vars

\* C2 witness: b = a was executed with a unsafe; now a is safe and b is
\* unsafe and holds a's (non-neutral) value
C2_Witness ==
    /\ last.op = "assign" /\ last.w # last.o
    /\ issafe[last.o] /\ ~issafe[last.w]
    /\ error[last.w] = raw /\ raw # Neutral(T) /\ ~terminated

\* C3: no logical result has its obligation held by two live wrappers at
\* once, and every obligation belongs to a result.
C3_ObligationNeverDuplicated ==
    /\ \A r \in 1..MaxWrappers : Cardinality({w \in Unsafe : res[w] = r}) <= 1
    /\ \A w \in Unsafe : res[w] # 0

\* C3 witness: two live wrappers hold the value of the same result after a
\* copy, and exactly one of them holds the obligation
C3_Witness ==
    \E a \in Slots, b \in Slots :
        /\ a # b /\ live[a] /\ live[b] /\ res[a] = res[b] /\ res[a] # 0
        /\ issafe[a] /\ ~issafe[b]

\* C4: right after default construction the wrapper holds the domain's
\* reserved success code and is safe (destroying it now would not
\* terminate); right after construction from a raw code it holds that code
\* and is unsafe, success code or not.
C4_SafetyByConstructor ==
    /\ last.op = "ctor_default" =>
          /\ error[last.w] = Neutral(T) /\ issafe[last.w]
          /\ ~safe_or_terminate(last.w)
    /\ last.op = "ctor_value" =>
          /\ error[last.w] = raw /\ ~issafe[last.w]

\* C4 witness: a wrapper constructed from the domain's success code is unsafe
C4_Witness ==
    /\ last.op = "ctor_value" /\ raw = Neutral(T)
    /\ live[last.w] /\ ~issafe[last.w]

\* C5: ok() (member, bool conversion, free function) returns the success
\* criterion of the held value, leaves the wrapper safe and the value as it was.
C5_OkReturnsSuccessAndMarksSafe ==
    [][last'.op = "ok" =>
          /\ last'.retb = SuccessCriterion(T, error[last'.w])
          /\ issafe'[last'.w]
          /\ error' = error]_vars

\* C6: release() on a live wrapper, safe or not, returns the value held
\* before the call, leaves the neutral value and is-safe = true, does not
\* terminate, and a destruction right after it would not terminate either.
C6_ReleaseReturnsValueAndIsSafe ==
    /\ [][last'.op = "release" =>
            /\ last'.retv = error[last'.w]
            /\ ok(T, last'.retv) = ok(T, error[last'.w])
            /\ error'[last'.w] = Neutral(T) /\ issafe'[last'.w]
            /\ ~terminated']_vars
    /\ [](last.op = "release" => ~terminated /\ ~safe_or_terminate(last.w))
    /\ [](\A w \in Slots : (live[w] /\ ~terminated) => ENABLED release(w))

\* C6 witness: release() returned a non-neutral failing value and the
\* wrapper is safe and neutral
C6_Witness ==
    /\ last.op = "release" /\ last.retv = raw /\ raw # Neutral(T)
    /\ ~ok(T, raw)
    /\ issafe[last.w] /\ error[last.w] = Neutral(T) /\ ~terminated

\* C7 as claimed: after reset() the process is running and the wrapper is
\* neutral and safe, whatever its flag was before
C7_ResetDischarges ==
    last.op = "reset" =>
        ~terminated /\ issafe[last.w] /\ error[last.w] = Neutral(T)

\* C7 as amended: reset() is no discharge operation. On an unsafe wrapper it
\* terminates the process and the wrapper keeps its unchecked value; on a
\* safe wrapper it leaves the neutral value with is-safe = true and the
\* process keeps running.
C7_ResetChecksFirst ==
    [][last'.op = "reset" =>
          IF issafe[last'.w]
            THEN /\ ~terminated' /\ issafe'[last'.w]
                 /\ error'[last'.w] = Neutral(T)
            ELSE /\ terminated' /\ ~issafe'[last'.w]
                 /\ error'[last'.w] = error[last'.w]]_vars

\* C7 witness: reset() on an unsafe wrapper has terminated the process
C7_Witness ==
    /\ terminated /\ last.op = "reset" /\ ~issafe[last.w]

C9_AssignOverUncheckedTerminates ==
    [][(/\ last'.op = "assign" /\ last'.w # last'.o
        /\ ~issafe[last'.w] /\ ~issafe[last'.o]) => terminated']_vars

\* C10: in every domain ok() of the value built from the reserved success
\* code, and of the default-constructed value, is true.
C10_SuccessCodeIsOk ==
    /\ (last.op = "value_ok" /\ last.retv = Neutral(T)) => last.retb
    /\ last.op = "value_ok_default" => last.retb

\* C11: for every code of the nt domain the bool conversion of the nt value,
\* and so ok(value), is the complement of the error-severity predicate.
C11_NtBoolIsNotError ==
    (T = "nt" /\ last.op = "value_ok") => (last.retb <=> ~nt_error(last.retv))

\* C12: raw || throw_last_error_if(invalid) throws, when raw is the sentinel,
\* a win_exception whose ok() is false whatever GetLastError() returns;
\* otherwise it returns raw unchanged, throws nothing and does not call
\* GetLastError().
C12_ThrowingDispatch ==
    disp.handler = "throw_last_error_if" =>
        IF disp.r = disp.invalid
          THEN disp.threw /\ ~disp.exc_ok
          ELSE ~disp.threw /\ disp.ret = disp.r /\ disp.gle = 0

\* C13: raw || last_error_if(invalid) never throws and returns a pair whose
\* value half is raw; its status half fails the success predicate when raw
\* is the sentinel, whatever GetLastError() returns, and is the neutral
\* success value otherwise.
C13_NonThrowingDispatch ==
    disp.handler = "last_error_if" =>
        /\ ~disp.threw /\ disp.ret = disp.r
        /\ IF disp.r = disp.invalid
             THEN ~SuccessCriterion("win", disp.status)
             ELSE disp.status = Neutral("win")

\* C16: code || throw_hr and code || throw_nt return normally exactly when
\* the code is a success of its domain, and otherwise throw the domain
\* exception, which carries that code and whose ok() is false.
C16_FailureAlwaysThrown ==
    /\ disp.handler = "throw_hr" =>
          /\ ~disp.threw <=> SuccessCriterion("hr", disp.code)
          /\ disp.threw => (disp.exc_code = disp.code /\ ~disp.exc_ok)
    /\ disp.handler = "throw_nt" =>
          /\ ~disp.threw <=> SuccessCriterion("nt", disp.code)
          /\ disp.threw => (disp.exc_code = disp.code /\ ~disp.exc_ok)

\* C18: a dispatch through last_error_if or throw_last_error_if calls
\* GetLastError() once if the raw result is the sentinel and not at all
\* otherwise; throw_hr and throw_nt never call it.
C18_DiagnosticOnlyOnSentinel ==
    /\ disp.handler \in {"last_error_if", "throw_last_error_if"} =>
          disp.gle = IF disp.r = disp.invalid THEN 1 ELSE 0
    /\ disp.handler \in {"throw_hr", "throw_nt"} => disp.gle = 0

\* C18 witness: last_error_if was handed a raw result other than its
\* (non-null) sentinel and returned the neutral status without a call
C18_Witness ==
    /\ disp.handler = "last_error_if" /\ disp.r # disp.invalid
    /\ disp.invalid # 0 /\ disp.gle = 0 /\ disp.status = NOERROR
    /\ GetLastError # NOERROR

\* the operations that hand the held value, or a fact about it, to the caller
CmpOps == {"eq_wt", "ne_wt", "eq_tw", "ne_tw", "eq_ww", "ne_ww"}
Exposing == {"ok", "get", "release"} \cup CmpOps

\* the wrappers an executed operation was applied to
Touched == {x \in {last.w, last.o} : x \in Slots}

\* C14 (as stated): every operation that exposes the held value or a fact
\* about it (ok, bool conversion, get, release, the comparisons involving a
\* wrapper) leaves the wrapper with is-safe = true.
C14_NoPeekWithoutDischarge ==
    last.op \in Exposing => \A x \in Touched : issafe[x]

\* C14 (amended): ok, the bool conversion and release leave is-safe = true;
\* get and the comparisons involving a wrapper hand out the held value, or
\* whether it equals another, and leave is-safe and the held value exactly
\* as they were, without terminating.
C14_OnlyCheckAndReleaseMarkSafe ==
    [][ /\ last'.op \in {"ok", "release"} => issafe'[last'.w]
        /\ last'.op \in {"get"} \cup CmpOps =>
                /\ issafe' = issafe
                /\ error' = error
                /\ ~terminated' ]_vars

\* an unchecked wrapper was compared with a status value, the answer was
\* "equal", and the wrapper is still unsafe
C14_Witness ==
    /\ last.op = "eq_wt"
    /\ last.retb
    /\ live[last.w] /\ ~issafe[last.w]

\* C15: == on two status values of one domain is true iff their codes are
\* identical and != is its negation, whatever the success predicate says of
\* either; comparing a wrapper with a value, or two wrappers, gives the
\* result of comparing the held values.
C15_EqualityByCode ==
    /\ last.op = "eq_tt" => (last.retb <=> raw = last.arg)
    /\ last.op = "ne_tt" => (last.retb <=> ~(raw = last.arg))
    /\ last.op = "eq_wt" => (last.retb <=> error[last.w] = last.arg)
    /\ last.op = "ne_wt" => (last.retb <=> ~(error[last.w] = last.arg))
    /\ last.op = "eq_tw" => (last.retb <=> last.arg = error[last.o])
    /\ last.op = "ne_tw" => (last.retb <=> ~(last.arg = error[last.o]))
    /\ last.op = "eq_ww" => (last.retb <=> error[last.w] = error[last.o])
    /\ last.op = "ne_ww" => (last.retb <=> ~(error[last.w] = error[last.o]))

\* two values with different codes on which the success predicate agrees
\* were compared and found unequal
C15_Witness ==
    /\ last.op = "eq_tt"
    /\ ~last.retb
    /\ raw # last.arg
    /\ ok(T, raw) = ok(T, last.arg)

\* C17: `std::tie(err, event) = raw || last_error_if(invalid)` completes
\* without terminating and leaves err unsafe, holding the status half
\* (GetLastError() on a sentinel match, NOERROR otherwise); into a safe err
\* (a default-constructed one) it opens exactly one obligation, err's.
C17_TieAssignOpensOneObligation ==
    [][ last'.op = "tie_assign" =>
            /\ ~terminated'
            /\ ~issafe'[last'.w]
            /\ last'.arg = (IF last'.retb THEN GetLastError ELSE NOERROR)
            /\ error'[last'.w] = last'.arg
            /\ issafe[last'.w] =>
                    /\ last'.w \notin Unsafe
                    /\ Unsafe' = Unsafe \cup {last'.w} ]_vars

\* the raw result did not match the sentinel while the last-error code was a
\* failure: err holds NOERROR and is unsafe, and the process runs
C17_Witness ==
    /\ last.op = "tie_assign"
    /\ ~last.retb
    /\ raw # NOERROR
    /\ ~terminated
    /\ error[last.w] = NOERROR
    /\ ~issafe[last.w]

\* C19: reset(v) on a safe wrapper leaves it holding v with is-safe = false,
\* for every v; reset() on a safe wrapper leaves it holding the neutral
\* value with is-safe = true; neither terminates.
C19_ResetReopensObligation ==
    [][ /\ (last'.op = "reset_v" /\ issafe[last'.w]) =>
                /\ ~terminated'
                /\ error'[last'.w] = raw
                /\ ~issafe'[last'.w]
        /\ (last'.op = "reset" /\ issafe[last'.w]) =>
                /\ ~terminated'
                /\ error'[last'.w] = Neutral(T)
                /\ issafe'[last'.w] ]_vars

\* a wrapper was reset to the success code and is unsafe
C19_Witness ==
    /\ last.op = "reset_v"
    /\ ~terminated
    /\ raw = Neutral(T)
    /\ error[last.w] = raw
    /\ ~issafe[last.w]

\* C20: copy-assigning a wrapper to itself leaves its held value and its
\* is-safe flag unchanged.
C20_SelfAssignKeepsObligation ==
    [][ (last'.op = "assign" /\ last'.w = last'.o) =>
            /\ error' = error
            /\ issafe' = issafe ]_vars

====
